---- MODULE Spec2Model ----
(***************************************************************************)
(* State-machine model of the agentgate-channel plugin, WebSocket variant: *)
(* the WebSocketClient class (ws-client.ts), the plugin's registry of      *)
(* active clients, outbound.sendText and gateway.startAccount with its     *)
(* message router (channel.ts), together with the socket events of the     *)
(* "ws" library and the timers of the Node runtime that drive them.        *)
(*                                                                         *)
(* A client is a record. Its first group of fields are the fields and      *)
(* constructor options of the class; the second group is the part of the   *)
(* runtime the client owns: the sockets it created with their readyState,  *)
(* the number of live setInterval / setTimeout timers it created, and the  *)
(* abort signal handed to start().                                         *)
(*                                                                         *)
(* The configuration the host holds (resolveAccount, listAccountIds of     *)
(* types.ts) and the polling variant of the plugin (src/channel.ts: the    *)
(* interval timers of activePollers and the runs of poll()) are modelled   *)
(* beside it.                                                              *)
(***************************************************************************)
EXTENDS Integers, Sequences, FiniteSets, TLC

\* ----------------------------------------------------------------- bounds
MaxClients == 2      \* WebSocketClient objects constructed in one run
MaxSockets == 6      \* sockets created in one run
MaxStops   == 2      \* stop() calls on one client
MaxStarts  == 2      \* start() calls on one client
MaxFrames  == 1      \* outbound frames handed to send() in one run
MaxInbound == 2      \* inbound units delivered in one run
MaxPollers == 2      \* poll timers created in one run (polling variant)
MaxPolls   == 2      \* poll() runs started in one run (polling variant)
MaxMsgs    == 3      \* messages in the inbox of an account (polling variant)
MaxFields  == 2      \* optional fields present in one inbound agent event
MaxEdits   == 1      \* edits of the configuration in one run
MaxLen     == 2      \* length of the url and token strings of a configuration

\* ------------------------------------------------------ program constants
DEFAULT_ACCOUNT_ID == "default"
Accounts == {DEFAULT_ACCOUNT_ID, "work"}

\* reconnectIntervalMs / maxReconnectIntervalMs pairs a client is built with
IntervalConfigs == { <<5000, 60000>>, <<1000, 2000>> }

\* the abortSignal given to startAccount: absent, not yet fired, already fired
Signals == {"none", "armed", "aborted"}

\* what an inbound unit can be: text that is not JSON, or a message by type
\* ("chat" is type "message" from "human", "chat-other" from anyone else)
UnitKinds == {"malformed", "connected", "human_connected", "human_disconnected",
              "chat", "chat-other", "wake", "agent", "error", "pong", "unknown"}

\* results of the POST to the local hook: an HTTP status, 0 = transport error
HookResults == {200, 202, 500, 0}

\* account.config.pollIntervalMs as given (0: not set)
PollIntervals == {0, 2000}

\* url and token are strings, kept as sequences of characters
Chars == {" ", "x"}
Strings(n) == UNION { [1..k -> Chars] : k \in 0..n }

\* the channels.agentgate section of the configuration together with what
\* resolveHooksConfig reads (hooks: hooks.enabled === true with a token)
Config(url, token, ivl, ping, hooks) ==
    [url |-> url, token |-> token, reconnectIntervalMs |-> ivl[1],
     maxReconnectIntervalMs |-> ivl[2], pingIntervalMs |-> ping, hooks |-> hooks]

\* a configuration that differs from the usual one in every setting
OtherConfig == Config(<<"x", "x">>, <<"x", "x">>, <<1000, 2000>>, 10000, FALSE)

\* a configuration whose url is blank
BlankConfig == Config(<<" ">>, <<"x">>, <<5000, 60000>>, 30000, TRUE)

\* the configurations with every url and token up to MaxLen characters
StringConfigs ==
    { Config(u, t, <<5000, 60000>>, 30000, TRUE) : u, t \in Strings(MaxLen) }

\* The runs explored, each a budget of objects and events together with the
\* inputs startAccount is given: one client failing many times in a row, one
\* client stopped, aborted and started again, one client sending across a
\* reconnect, one client receiving a burst of inbound units, several clients
\* sharing the registry, two clients sending, the pollers of an account of
\* the polling variant of the plugin, one poller working through an inbox,
\* one client receiving agent events with their
\* optional fields, one client whose configuration is edited while it runs,
\* one client receiving before and after a reconnect, and the account
\* lookups over every url and token.
Scopes ==
    { [name |-> "backoff", accounts |-> {DEFAULT_ACCOUNT_ID}, clients |-> 1,
       sockets |-> MaxSockets, stops |-> 1, starts |-> 1,
       frames |-> 0, inbound |-> 0,
       intervals |-> IntervalConfigs, signals |-> {"none"}, hooks |-> {TRUE}, pollers |-> 0, polls |-> 0, fields |-> 0,
       edits |-> 0, lookups |-> FALSE, others |-> {}, msgs |-> 0, periods |-> {0}],
      [name |-> "lifecycle", accounts |-> {DEFAULT_ACCOUNT_ID}, clients |-> 1,
       sockets |-> 3, stops |-> MaxStops, starts |-> MaxStarts,
       frames |-> 0, inbound |-> 0,
       intervals |-> {<<5000, 60000>>}, signals |-> Signals, hooks |-> {TRUE}, pollers |-> 0, polls |-> 0, fields |-> 0,
       edits |-> 0, lookups |-> FALSE, others |-> {}, msgs |-> 0, periods |-> {0}],
      [name |-> "traffic", accounts |-> {DEFAULT_ACCOUNT_ID}, clients |-> 1,
       sockets |-> 2, stops |-> 1, starts |-> 1,
       frames |-> MaxFrames, inbound |-> 1,
       intervals |-> {<<5000, 60000>>}, signals |-> {"none"}, hooks |-> BOOLEAN, pollers |-> 0, polls |-> 0, fields |-> 0,
       edits |-> 0, lookups |-> FALSE, others |-> {}, msgs |-> 0, periods |-> {0}],
      [name |-> "burst", accounts |-> {DEFAULT_ACCOUNT_ID}, clients |-> 1,
       sockets |-> 1, stops |-> 0, starts |-> 1,
       frames |-> 1, inbound |-> MaxInbound,
       intervals |-> {<<5000, 60000>>}, signals |-> {"none"}, hooks |-> {TRUE}, pollers |-> 0, polls |-> 0, fields |-> 0,
       edits |-> 0, lookups |-> FALSE, others |-> {}, msgs |-> 0, periods |-> {0}],
      [name |-> "registry", accounts |-> Accounts, clients |-> MaxClients,
       sockets |-> MaxClients, stops |-> 1, starts |-> 1,
       frames |-> 0, inbound |-> 0,
       intervals |-> {<<5000, 60000>>}, signals |-> {"none"}, hooks |-> {TRUE}, pollers |-> 0, polls |-> 0, fields |-> 0,
       edits |-> 0, lookups |-> FALSE, others |-> {}, msgs |-> 0, periods |-> {0}],
      [name |-> "routing", accounts |-> Accounts, clients |-> 2,
       sockets |-> 2, stops |-> 1, starts |-> 1,
       frames |-> MaxFrames, inbound |-> 0,
       intervals |-> {<<5000, 60000>>}, signals |-> {"none"}, hooks |-> {TRUE}, pollers |-> 0, polls |-> 0, fields |-> 0,
       edits |-> 0, lookups |-> FALSE, others |-> {}, msgs |-> 0, periods |-> {0}],
      [name |-> "polling", accounts |-> {DEFAULT_ACCOUNT_ID}, clients |-> 0,
       sockets |-> 0, stops |-> 1, starts |-> 1,
       frames |-> 0, inbound |-> 0,
       intervals |-> {<<5000, 60000>>}, signals |-> {"none"}, hooks |-> {TRUE},
       pollers |-> MaxPollers, polls |-> MaxPollers + 1, fields |-> 0,
       edits |-> 0, lookups |-> FALSE, others |-> {}, msgs |-> 0, periods |-> {0}],
      [name |-> "inbox", accounts |-> {DEFAULT_ACCOUNT_ID}, clients |-> 0,
       sockets |-> 0, stops |-> 1, starts |-> 1,
       frames |-> 0, inbound |-> 0,
       intervals |-> {<<5000, 60000>>}, signals |-> {"none"}, hooks |-> {TRUE},
       pollers |-> 1, polls |-> MaxPolls, fields |-> 0,
       edits |-> 0, lookups |-> FALSE, others |-> {}, msgs |-> MaxMsgs,
       periods |-> PollIntervals],
      [name |-> "agent", accounts |-> {DEFAULT_ACCOUNT_ID}, clients |-> 1,
       sockets |-> 1, stops |-> 0, starts |-> 1,
       frames |-> 0, inbound |-> 1,
       intervals |-> {<<5000, 60000>>}, signals |-> {"none"}, hooks |-> {TRUE},
       pollers |-> 0, polls |-> 0, fields |-> MaxFields,
       edits |-> 0, lookups |-> FALSE, others |-> {}, msgs |-> 0, periods |-> {0}],
      [name |-> "config", accounts |-> {DEFAULT_ACCOUNT_ID}, clients |-> 1,
       sockets |-> 2, stops |-> 0, starts |-> 1,
       frames |-> 1, inbound |-> 1,
       intervals |-> {<<5000, 60000>>}, signals |-> {"none"}, hooks |-> {TRUE},
       pollers |-> 0, polls |-> 0, fields |-> 0,
       edits |-> MaxEdits, lookups |-> FALSE, others |-> {OtherConfig, BlankConfig}, msgs |-> 0, periods |-> {0}],
      [name |-> "replay", accounts |-> {DEFAULT_ACCOUNT_ID}, clients |-> 1,
       sockets |-> 2, stops |-> 0, starts |-> 1,
       frames |-> 0, inbound |-> 2,
       intervals |-> {<<5000, 60000>>}, signals |-> {"none"}, hooks |-> {TRUE},
       pollers |-> 0, polls |-> 0, fields |-> 0,
       edits |-> 0, lookups |-> FALSE, others |-> {}, msgs |-> 0, periods |-> {0}],
      [name |-> "accounts", accounts |-> {DEFAULT_ACCOUNT_ID}, clients |-> 0,
       sockets |-> 0, stops |-> 0, starts |-> 1,
       frames |-> 0, inbound |-> 0,
       intervals |-> {<<5000, 60000>>}, signals |-> {"none"}, hooks |-> {TRUE},
       pollers |-> 0, polls |-> 0, fields |-> 0,
       edits |-> 0, lookups |-> TRUE, others |-> StringConfigs, msgs |-> 0, periods |-> {0}] }

\* the configurations a run is given or edited to
ScopeConfigs(sc) ==
    { Config(<<"x">>, <<"x">>, ivl, 30000, h) : ivl \in sc.intervals, h \in sc.hooks }
        \cup sc.others

Min(a, b) == IF a <= b THEN a ELSE b

\* ----------------------------------------------------------------- state
VARIABLES
    scope,          \* the budget of this run, fixed by Init
    cfg,            \* the configuration as it is now, and the edits made to it
    clients,        \* sequence of client records, index = identity
    activeClients,  \* the registry: account id -> client identity, 0 = none
    status,         \* what the status sink has accumulated per account
    wire,           \* frames transmitted: [frame, client, sock, state]
    rejected,       \* ids of the frames whose send() threw
    nextId,         \* frames handed to send() so far
    inbound,        \* inbound units delivered so far
    tasks,          \* handlers of inbound events waiting on the hook or the host
    poll,           \* polling variant: activePollers and the interval timers
    lastCall        \* outcome of the most recent API call or event

vars == <<scope, cfg, clients, activeClients, status, wire, rejected, nextId, inbound,
          tasks, poll, lastCall>>

ClientIds == 1..Len(clients)

RECURSIVE SocketsUpTo(_)
SocketsUpTo(n) == IF n = 0 THEN 0 ELSE Len(clients[n].sockets) + SocketsUpTo(n - 1)
TotalSockets == SocketsUpTo(Len(clients))

\* ---------------------------------------------------------- status sink
\* (the time stamps lastConnectedAt, lastStartAt, lastStopAt carry clock values
\* and are left out)
NoStatus == [running |-> FALSE, connected |-> FALSE, lastError |-> "null"]

\* setStatus: the sink merges the partial update into what it holds
setStatus(st, acct, upd) ==
    [st EXCEPT ![acct] = [f \in DOMAIN @ |-> IF f \in DOMAIN upd THEN upd[f] ELSE @[f]]]

\* ------------------------------------------------------- WebSocketClient
WebSocketClient(account, hooks, sig) ==
    [ \* options (closures of startAccount included)
      accountId |-> account.accountId,
      url |-> account.config.url,
      token |-> account.config.token,
      reconnectIntervalMs |-> account.config.reconnectIntervalMs,
      maxReconnectIntervalMs |-> account.config.maxReconnectIntervalMs,
      pingIntervalMs |-> account.config.pingIntervalMs,
      hooksEnabled |-> hooks.enabled,
      \* fields
      ws |-> 0,
      reconnectAttempts |-> 0,
      pingInterval |-> FALSE,
      destroyed |-> FALSE,
      reconnectTimeout |-> "null",
      \* runtime owned by the client
      sockets |-> << >>,        \* readyState of every socket created
      target |-> << >>,         \* url and token every socket was created with
      closeCalls |-> << >>,     \* ws.close() calls per socket
      closeCode |-> << >>,      \* code of the last ws.close() call per socket
      pingTimers |-> 0,         \* live setInterval timers
      timers |-> 0,             \* pending setTimeout timers
      delay |-> 0,              \* delay of the most recent setTimeout
      pingEvery |-> 0,          \* period of the most recent setInterval
      signal |-> sig,           \* "none" | "armed" | "aborted" | "fired"
      listeners |-> 0,          \* abort listeners registered on the signal
      \* history
      startCalls |-> 0,
      stopCalls |-> 0,
      closesSinceOpen |-> 0,    \* socket close events since the last open event
      onMessageCalls |-> 0 ]    \* invocations of options.onMessage

\* WebSocket.close(code, reason) of the ws library on socket s of the client
wsClose(cl, s, code) ==
    [cl EXCEPT !.closeCalls[s] = @ + 1,
               !.closeCode[s] = code,
               !.sockets[s] = CASE @ = "CONNECTING" -> "ABORTING"
                                [] @ = "OPEN" -> "CLOSING"
                                [] OTHER -> @]

\* cleanup() that forgets to clear the interval
cleanup_keepsInterval(cl) == cl

cleanup(cl) ==
    IF cl.pingInterval
    THEN [cl EXCEPT !.pingInterval = FALSE, !.pingTimers = @ - 1]
    ELSE cl

\* stop() that leaves the reconnect timer alone
stop_keepsTimer(cl) ==
    LET a == cleanup([cl EXCEPT !.destroyed = TRUE, !.stopCalls = @ + 1])
    IN IF a.ws # 0 THEN [wsClose(a, a.ws, 1000) EXCEPT !.ws = 0] ELSE a

\* stop() that keeps its reference to the socket it closed
stop_keepsSocket(cl) ==
    LET a == cleanup([cl EXCEPT !.destroyed = TRUE, !.stopCalls = @ + 1])
        b == IF a.ws # 0 THEN wsClose(a, a.ws, 1000) ELSE a
    IN  IF b.reconnectTimeout # "null"
        THEN [b EXCEPT !.reconnectTimeout = "null",
                       !.timers = IF b.reconnectTimeout = "pending" THEN @ - 1 ELSE @]
        ELSE b

stop(cl) ==
    LET a == cleanup([cl EXCEPT !.destroyed = TRUE, !.stopCalls = @ + 1])
        b == IF a.ws # 0 THEN [wsClose(a, a.ws, 1000) EXCEPT !.ws = 0] ELSE a
    IN  IF b.reconnectTimeout # "null"
        THEN [b EXCEPT !.reconnectTimeout = "null",
                       !.timers = IF b.reconnectTimeout = "pending" THEN @ - 1 ELSE @]
        ELSE b

\* isConnected() that forgets the readyState
isConnected_anySocket(cl) == cl.ws # 0

isConnected(cl) == cl.ws # 0 /\ cl.sockets[cl.ws] = "OPEN"

connect(cl) ==
    IF cl.destroyed THEN cl
    ELSE [cl EXCEPT !.sockets = Append(@, "CONNECTING"),
                    !.target = Append(@, [url |-> cl.url, token |-> cl.token]),
                    !.closeCalls = Append(@, 0),
                    !.closeCode = Append(@, 0),
                    !.ws = Len(cl.sockets) + 1]

startPing(cl) ==
    [cl EXCEPT !.pingInterval = TRUE, !.pingTimers = @ + 1,
               !.pingEvery = cl.pingIntervalMs]

\* an "open" handler that leaves the attempt counter alone
onOpen_keepsAttempts(cl) == startPing(cl)

\* the "open" handler installed by connect()
onOpen(cl) == startPing([cl EXCEPT !.reconnectAttempts = 0])

Pow2(n) == IF n <= 0 THEN 1 ELSE 2 ^ n

\* a delay that doubles once too often
reconnectDelay_offByOne(cl, attempts) ==
    Min(cl.reconnectIntervalMs * Pow2(attempts), cl.maxReconnectIntervalMs)

\* a delay computed from the configuration as it is when the socket closes
reconnectDelay_liveConfig(cl, attempts) ==
    Min(cfg.now.reconnectIntervalMs * Pow2(attempts - 1), cfg.now.maxReconnectIntervalMs)

reconnectDelay(cl, attempts) ==
    Min(cl.reconnectIntervalMs * Pow2(attempts - 1), cl.maxReconnectIntervalMs)

\* scheduleReconnect() without the destroyed check
scheduleReconnect_unguarded(cl) ==
    LET n == cl.reconnectAttempts + 1
    IN [cl EXCEPT !.reconnectAttempts = n,
                  !.delay = Min(cl.reconnectIntervalMs * (2 ^ (n - 1)),
                                cl.maxReconnectIntervalMs),
                  !.reconnectTimeout = "pending",
                  !.timers = @ + 1]

\* scheduleReconnect() that gives up after two attempts in a row
scheduleReconnect_givesUp(cl) ==
    IF cl.destroyed \/ cl.reconnectAttempts >= 2 THEN cl
    ELSE LET n == cl.reconnectAttempts + 1
         IN [cl EXCEPT !.reconnectAttempts = n,
                       !.delay = Min(cl.reconnectIntervalMs * (2 ^ (n - 1)),
                                     cl.maxReconnectIntervalMs),
                       !.reconnectTimeout = "pending",
                       !.timers = @ + 1]

scheduleReconnect(cl) ==
    IF cl.destroyed THEN cl
    ELSE LET n == cl.reconnectAttempts + 1
         IN [cl EXCEPT !.reconnectAttempts = n,
                       !.delay = reconnectDelay(cl, n),
                       !.reconnectTimeout = "pending",
                       !.timers = @ + 1]

\* a "close" handler that reconnects at once and schedules a reconnect too
onClose_alsoConnects(cl) == connect(scheduleReconnect(cleanup(cl)))

\* the "close" handler installed by connect() (its onDisconnect call is in
\* the action, where the status sink is)
onClose(cl) == scheduleReconnect(cleanup(cl))

\* start() that ignores the signal it is given
start_noListener(cl) == connect([cl EXCEPT !.startCalls = @ + 1])

\* start(abortSignal): registers the abort listener when a signal is given
start(cl) ==
    LET a == [cl EXCEPT !.startCalls = @ + 1,
                        !.listeners = IF cl.signal # "none" THEN @ + 1 ELSE @]
    IN connect(a)

\* send() that writes to whatever socket the client holds
send_anySocket(cl, c, frame) ==
    IF cl.ws # 0
    THEN [threw |-> FALSE,
          out |-> {[frame |-> frame, client |-> c, sock |-> cl.ws,
                    state |-> cl.sockets[cl.ws]]}]
    ELSE [threw |-> TRUE, out |-> {}]

\* send(message): what the call puts on the wire, and whether it throws
send(cl, c, frame) ==
    IF cl.ws # 0 /\ cl.sockets[cl.ws] = "OPEN"
    THEN [threw |-> FALSE,
          out |-> {[frame |-> frame, client |-> c, sock |-> cl.ws,
                    state |-> cl.sockets[cl.ws]]}]
    ELSE [threw |-> TRUE, out |-> {}]

\* an outbound frame: its own id, its type, the inbound message id it refers
\* to (replyTo / messageId / id), and the status and error text of an ack
Frame(id, type, ref, st, err) ==
    [id |-> id, type |-> type, ref |-> ref, status |-> st, error |-> err]

\* the text `Hook returned ${status}`
HookReturned(code) == <<"Hook returned ", code>>

HooksNotEnabled == "Hooks not enabled in OpenClaw config"

\* postLocalHook: the ok flag of the result resolved for an HTTP status
\* (0 stands for the request's "error" event)
postLocalHook(statusCode) == [ok |-> statusCode \in {200, 202}, status |-> statusCode]

\* what the most recent step was: the operation, its input, the account and
\* client it concerned, and how it ended (a value returned, an error thrown or
\* logged)
Call(op, arg, acct, c, outcome) ==
    [op |-> op, arg |-> arg, acct |-> acct, client |-> c, outcome |-> outcome]

\* the catch block of the "message" handler: the error is logged
ParseFailed == "log:Failed to parse message"

\* polling variant: activePollers (account -> timer, 0 = no entry), the
\* interval timers that are live, the timers created (index = identity), the
\* stop handles returned and not yet called per account, the poll() runs
\* started and those in progress, the unread messages of each account's inbox
\* and the lastError given to the status sink
NoPollers ==
    [activePollers |-> [a \in Accounts |-> 0], timers |-> {}, created |-> 0,
     pollers |-> << >>, handles |-> [a \in Accounts |-> 0], runs |-> 0,
     running |-> {}, unread |-> [a \in Accounts |-> {}],
     lastError |-> [a \in Accounts |-> "null"]]

\* account.config.agentName, and the to_agent of the messages of an inbox:
\* the second one is for another agent
AgentName == "me"
toAgent(id) == IF id = 2 THEN "other" ELSE AgentName

\* the array fetchUnreadMessages returns, by id, from message i on
RECURSIVE Unread(_, _)
Unread(ids, i) ==
    IF i > MaxMsgs THEN << >>
    ELSE (IF i \in ids THEN <<i>> ELSE << >>) \o Unread(ids, i + 1)

\* `if (msg.to_agent !== account.config.agentName) continue`
RECURSIVE skipOthers(_)
skipOthers(batch) ==
    IF batch # << >> /\ toAgent(Head(batch)) # AgentName THEN skipOthers(Tail(batch))
                                                         ELSE batch

\* a timer created by setInterval(poll, pollIntervalMs), with the fetch
\* failures in a row of its poll() runs
Poller(acct, ms) ==
    [acct |-> acct, pollIntervalMs |-> IF ms = 0 THEN 5000 ELSE ms,
     every |-> IF ms = 0 THEN 5000 ELSE ms, failures |-> 0]

\* a poll() run suspended at an await: "fetch", "handle" or "mark"; batch is
\* what is left of the fetched array, the message in hand first
Run(id, timer, acct, initial, phase, batch) ==
    [id |-> id, timer |-> timer, acct |-> acct, initial |-> initial,
     phase |-> phase, batch |-> batch]

\* a delay that doubles with every fetch failure in a row
nextPollDelay_backoff(poller, failures) ==
    Min(poller.pollIntervalMs * Pow2(failures - 1), 60000)

\* the time to the next poll() of a poller: the period of its setInterval
nextPollDelay(poller, failures) == poller.every

\* a loop that marks the message read though its delivery failed
afterHandle_marksAnyway(run, ok) == [run EXCEPT !.phase = "mark"]

\* the loop body after `await handleInboundMessage`: markMessageRead is
\* called, or the rejection is caught and the run ends
afterHandle(run, ok) ==
    IF ok THEN [run EXCEPT !.phase = "mark"] ELSE [run EXCEPT !.phase = "end"]

\* String.prototype.trim on a sequence of characters
RECURSIVE trimStart(_)
trimStart(str) == IF str # << >> /\ Head(str) = " " THEN trimStart(Tail(str)) ELSE str

RECURSIVE trimEnd(_)
trimEnd(str) ==
    IF str # << >> /\ str[Len(str)] = " " THEN trimEnd(SubSeq(str, 1, Len(str) - 1))
                                          ELSE str

trim(str) == trimEnd(trimStart(str))

\* resolveAccount(cfg, accountId) (a missing url or token is the empty string)
resolveAccount(c, accountId) ==
    [accountId |-> IF accountId = "undefined" THEN DEFAULT_ACCOUNT_ID ELSE accountId,
     name |-> "agentgate",
     configured |-> trim(c.url) # << >> /\ trim(c.token) # << >>,
     config |-> [url |-> c.url, token |-> c.token,
                 reconnectIntervalMs |-> c.reconnectIntervalMs,
                 maxReconnectIntervalMs |-> c.maxReconnectIntervalMs,
                 pingIntervalMs |-> c.pingIntervalMs]]

\* listAccountIds(cfg)
listAccountIds(c) ==
    IF c.url # << >> /\ c.token # << >> THEN <<DEFAULT_ACCOUNT_ID>> ELSE << >>

\* resolveHooksConfig(cfg)
resolveHooksConfig(c) == [enabled |-> c.hooks]

\* ------------------------------------------------------------------ Init
Init ==
    /\ scope \in Scopes
    /\ \E c \in ScopeConfigs(scope) : cfg = [now |-> c, edits |-> 0]
    /\ clients = << >>
    /\ activeClients = [a \in Accounts |-> 0]
    /\ status = [a \in Accounts |-> NoStatus]
    /\ wire = {}
    /\ rejected = {}
    /\ nextId = 0
    /\ inbound = 0
    /\ tasks = {}
    /\ poll = [NoPollers EXCEPT
                  !.unread = [a \in Accounts |->
                                IF a \in scope.accounts THEN 1..scope.msgs ELSE {}]]
    /\ lastCall = Call("init", "none", "none", 0, "ok")

\* one send() call made by the plugin or the client on behalf of client c
Transmit(c, frame) ==
    LET r == send(clients[c], c, frame)
    IN /\ nextId < scope.frames
       /\ nextId' = nextId + 1
       /\ wire' = wire \cup r.out
       /\ rejected' = IF r.threw THEN rejected \cup {frame.id} ELSE rejected

\* a check that lets every account through
notConfigured_never(configured) == FALSE

\* the check `if (!account.configured) throw` at the head of startAccount
notConfigured(configured) == ~configured

\* --------------------------------------------------- plugin: startAccount
\* gateway.startAccount(ctx): throws for an unconfigured account, otherwise
\* builds the client, registers it, starts it and reports running.
StartAccount(acct, sig) ==
    /\ acct \in scope.accounts /\ sig \in scope.signals
    /\ LET account    == resolveAccount(cfg.now, acct)
           configured == account.configured
       IN IF notConfigured(configured)
          THEN /\ lastCall' = Call("startAccount", [signal |-> sig, configured |-> configured],
                                   acct, 0, "throw:not configured")
               /\ UNCHANGED <<clients, activeClients, status>>
          ELSE LET c  == Len(clients) + 1
                   hooks == resolveHooksConfig(cfg.now)
                   s1 == setStatus(status, acct,
                           [running |-> FALSE, connected |-> FALSE, lastError |-> "null"])
                   cl == start(WebSocketClient(account, hooks, sig))
               IN /\ Len(clients) < scope.clients
                  /\ TotalSockets < scope.sockets
                  /\ clients' = Append(clients, cl)
                  /\ activeClients' = [activeClients EXCEPT ![acct] = c]
                  /\ status' = setStatus(s1, acct, [running |-> TRUE])
                  /\ lastCall' = Call("startAccount",
                                      [signal |-> sig, configured |-> configured],
                                      acct, c, "started")
    /\ UNCHANGED <<scope, cfg, poll, wire, rejected, nextId, inbound, tasks>>

\* ------------------------------------------------- host: the configuration
\* the configuration is edited (the host reloads or rewrites it)
ConfigEdit(new) ==
    /\ cfg.edits < scope.edits
    /\ new \in ScopeConfigs(scope) /\ new # cfg.now
    /\ cfg' = [now |-> new, edits |-> cfg.edits + 1]
    /\ lastCall' = Call("configEdit", "none", "none", 0, "ok")
    /\ UNCHANGED <<scope, clients, activeClients, status, wire, rejected, nextId,
                   inbound, tasks, poll>>

\* config.listAccountIds(cfg) called by the host
ListAccountIds ==
    /\ scope.lookups
    /\ lastCall' = Call("listAccountIds", "none", "none", 0, listAccountIds(cfg.now))
    /\ UNCHANGED <<scope, cfg, clients, activeClients, status, wire, rejected, nextId,
                   inbound, tasks, poll>>

\* config.resolveAccount(cfg, accountId) called by the host
ResolveAccount(accountId) ==
    /\ scope.lookups
    /\ lastCall' = Call("resolveAccount", accountId, "none", 0,
                        resolveAccount(cfg.now, accountId))
    /\ UNCHANGED <<scope, cfg, clients, activeClients, status, wire, rejected, nextId,
                   inbound, tasks, poll>>

\* the stop handle returned by startAccount for client c
StopHandle(c) ==
    /\ c \in ClientIds
    /\ clients[c].stopCalls < scope.stops
    /\ clients' = [clients EXCEPT ![c] = stop(@)]
    /\ activeClients' = [activeClients EXCEPT ![clients[c].accountId] = 0]
    /\ status' = setStatus(status, clients[c].accountId,
                    [running |-> FALSE, connected |-> FALSE])
    /\ lastCall' = Call("stopHandle", "none", clients[c].accountId, c, "stopped")
    /\ UNCHANGED <<scope, cfg, poll, wire, rejected, nextId, inbound, tasks>>

\* the abort signal given to start() fires: every registered listener runs stop()
Abort(c) ==
    /\ c \in ClientIds
    /\ clients[c].signal = "armed"
    /\ clients[c].stopCalls + clients[c].listeners <= scope.stops
    /\ LET a == [clients[c] EXCEPT !.signal = "fired"]
           b == IF a.listeners >= 1 THEN stop(a) ELSE a
           d == IF a.listeners >= 2 THEN stop(b) ELSE b
       IN clients' = [clients EXCEPT ![c] = d]
    /\ lastCall' = Call("abort", "none", clients[c].accountId, c, "aborted")
    /\ UNCHANGED <<scope, cfg, poll, activeClients, status, wire, rejected, nextId, inbound, tasks>>

\* start() called again on a client that was stopped (the plugin itself
\* calls start() once, on the client it has just built)
StartAgain(c) ==
    /\ c \in ClientIds
    /\ clients[c].destroyed
    /\ clients[c].startCalls < scope.starts
    /\ clients' = [clients EXCEPT ![c] = start(@)]
    /\ lastCall' = Call("start", "none", clients[c].accountId, c, "returned")
    /\ UNCHANGED <<scope, cfg, poll, activeClients, status, wire, rejected, nextId, inbound, tasks>>

\* ------------------------------------------------------- plugin: sendText
sendText(accountId, to) ==
    LET aid == IF accountId = "undefined" THEN DEFAULT_ACCOUNT_ID ELSE accountId
        c   == activeClients[aid]
    IN /\ IF c = 0 \/ ~isConnected(clients[c])
          THEN /\ lastCall' = Call("sendText", accountId, aid, c, "throw:not connected")
               /\ UNCHANGED <<wire, rejected, nextId>>
          ELSE /\ Transmit(c, Frame(nextId + 1, "message", to, "none", "none"))
               /\ lastCall' = Call("sendText", accountId, aid, c,
                     IF send(clients[c], c, "f").threw THEN "throw:ws not connected"
                                                         ELSE "sent")
       /\ UNCHANGED <<scope, cfg, poll, clients, activeClients, status, inbound, tasks>>

\* ---------------------------------------------------------- socket events
\* "open" event of socket s of client c
SocketOpens(c, s) ==
    /\ c \in ClientIds /\ s \in DOMAIN clients[c].sockets
    /\ clients[c].sockets[s] = "CONNECTING"
    /\ clients' = [clients EXCEPT ![c] =
                     onOpen([@ EXCEPT !.sockets[s] = "OPEN", !.closesSinceOpen = 0])]
    /\ lastCall' = Call("open", s, clients[c].accountId, c, "handled")
    /\ UNCHANGED <<scope, cfg, poll, activeClients, status, wire, rejected, nextId, inbound, tasks>>

\* "error" event of socket s: logged and handed to onError
SocketError(c, s) ==
    /\ c \in ClientIds /\ s \in DOMAIN clients[c].sockets
    /\ clients[c].sockets[s] \in {"CONNECTING", "OPEN", "ABORTING"}
    /\ clients' = [clients EXCEPT
                      ![c].sockets[s] = IF @ = "OPEN" THEN "CLOSING" ELSE "ABORTING"]
    /\ status' = setStatus(status, clients[c].accountId, [lastError |-> "ws-error"])
    /\ lastCall' = Call("error", s, clients[c].accountId, c, "handled")
    /\ UNCHANGED <<scope, cfg, poll, activeClients, wire, rejected, nextId, inbound, tasks>>

\* "close" event of socket s
SocketCloses(c, s) ==
    /\ c \in ClientIds /\ s \in DOMAIN clients[c].sockets
    /\ clients[c].sockets[s] # "CLOSED"
    /\ clients' = [clients EXCEPT ![c] =
                     onClose([@ EXCEPT !.sockets[s] = "CLOSED",
                                       !.closesSinceOpen = @ + 1])]
    /\ status' = setStatus(status, clients[c].accountId, [connected |-> FALSE])
    /\ lastCall' = Call("close", s, clients[c].accountId, c, "handled")
    /\ UNCHANGED <<scope, cfg, poll, activeClients, wire, rejected, nextId, inbound, tasks>>

\* ------------------------------------------------------------ timers
\* a pending setTimeout of scheduleReconnect fires and runs connect()
ReconnectTimerFires(c) ==
    /\ c \in ClientIds
    /\ clients[c].timers > 0
    /\ TotalSockets < scope.sockets
    /\ LET a == [clients[c] EXCEPT !.timers = @ - 1,
                    !.reconnectTimeout = IF @ = "pending" THEN "fired" ELSE @]
       IN clients' = [clients EXCEPT ![c] = connect(a)]
    /\ lastCall' = Call("timer", "none", clients[c].accountId, c, "handled")
    /\ UNCHANGED <<scope, cfg, poll, activeClients, status, wire, rejected, nextId, inbound, tasks>>

\* a tick of the setInterval of startPing
PingTick(c) ==
    /\ c \in ClientIds
    /\ clients[c].pingTimers > 0
    /\ LET cl == clients[c]
       IN IF cl.ws # 0 /\ cl.sockets[cl.ws] = "OPEN"
          THEN /\ Transmit(c, Frame(nextId + 1, "ping", "none", "none", "none"))
               /\ lastCall' = Call("ping", "none", cl.accountId, c, "sent")
          ELSE /\ lastCall' = Call("ping", "none", cl.accountId, c, "skipped")
               /\ UNCHANGED <<wire, rejected, nextId>>
    /\ UNCHANGED <<scope, cfg, poll, clients, activeClients, status, inbound, tasks>>

\* ------------------------------------------------- inbound units, router
\* a parser that accepts any text
parses_anything(kind) == TRUE

\* JSON.parse of the received text succeeds
parses(kind) == kind # "malformed"

\* the connId and text of the inbound "message" events delivered
ChatEvents == { [connId |-> "user1", text |-> "hello there"],
                [connId |-> "user2", text |-> "hi"] }

NoEvent == [connId |-> "none", text |-> "none"]

\* a call that passes the account id where the chat id belongs
handleInboundMessage_accountAsChat(acct, ev) ==
    [channel |-> "agentgate", accountId |-> acct, senderId |-> ev.connId,
     chatType |-> "direct", chatId |-> acct, text |-> ev.text]

\* the argument of handleInboundMessage for a chat event of an account (the
\* reply callback it carries is the action HostReplies)
handleInboundMessage(acct, ev) ==
    [channel |-> "agentgate", accountId |-> acct, senderId |-> ev.connId,
     chatType |-> "direct", chatId |-> ev.connId, text |-> ev.text]

\* the texts the host passes to the reply callback
ReplyTexts == {"On it"}

\* the object the reply callback hands to client.send for the "message" event
\* a handler is working on (the timestamp, the clock's reading, is left out)
replyFrame(message, responseText, id) ==
    [type |-> "reply", replyTo |-> message.id, text |-> responseText, id |-> id]

\* the frame record of such an object
sent(obj) == Frame(obj.id, obj.type, obj.replyTo, "none", "none")

\* the fields of an inbound "agent" event that may be missing from its JSON
AgentKeys == {"name", "deliver", "channel", "to", "model", "thinking", "timeoutSeconds"}

\* the values a field that is present is given: JSON null, a value that is
\* falsy in JavaScript, a value that is truthy ("undefined" is a missing field)
AgentValues(k) ==
    CASE k = "deliver"        -> <<"null", "false", "true">>
      [] k = "timeoutSeconds" -> <<"null", "0", "30">>
      [] k = "name"           -> <<"null", "", "Email">>
      [] k = "channel"        -> <<"null", "", "last">>
      [] k = "to"             -> <<"null", "", "+15551234567">>
      [] k = "model"          -> <<"null", "", "openai/gpt-5.2-mini">>
      [] OTHER                -> <<"null", "", "low">>

\* the agent events with at most n of these fields present
AgentEvents(n) ==
    UNION { { [k \in AgentKeys \cup {"message"} |->
                 IF k = "message" THEN "Summarize inbox"
                 ELSE IF k \in present THEN AgentValues(k)[pick[k]] ELSE "undefined"] :
              pick \in [present -> 1..3] } :
            present \in {S \in SUBSET AgentKeys : Cardinality(S) <= n} }

\* the conditions `if (v)` and `v ?? d` of JavaScript on these values
truthy(v) == v \notin {"undefined", "null", "false", "0", ""}
nullish(v) == v \in {"undefined", "null"}

\* agentBody: the object POSTed to the agent hook ("undefined" is a key the
\* object does not have)
agentBody(ev) ==
    [message |-> ev.message,
     name |-> IF nullish(ev.name) THEN "agentgate" ELSE ev.name,
     deliver |-> IF ev.deliver # "undefined" THEN ev.deliver ELSE "undefined",
     channel |-> IF truthy(ev.channel) THEN ev.channel ELSE "undefined",
     to |-> IF truthy(ev.to) THEN ev.to ELSE "undefined",
     model |-> IF truthy(ev.model) THEN ev.model ELSE "undefined",
     thinking |-> IF truthy(ev.thinking) THEN ev.thinking ELSE "undefined",
     timeoutSeconds |-> IF truthy(ev.timeoutSeconds) THEN ev.timeoutSeconds
                                                     ELSE "undefined"]

\* a handler suspended at an await: the inbound message id, its type, the
\* client and socket that delivered it, the event's fields and the call
\* awaited
Task(id, kind, c, s, ev, call) ==
    [id |-> id, kind |-> kind, client |-> c, sock |-> s, event |-> ev, call |-> call]

\* a switch in which `case "human_disconnected"` lacks its break and runs on
\* into the statements of `case "message"`
routed_fallsThrough(kind) == IF kind = "human_disconnected" THEN "chat" ELSE kind

\* `switch (message.type)` of the router: the case whose statements run for a
\* unit ("chat-other" is type "message" from anyone but a human, whose case
\* does nothing; a type without a case runs none)
routed(kind) == kind

\* a catch block that treats a failed handler as a lost connection
catchError_reconnects(cl) == scheduleReconnect(cl)

\* the catch block of the "message" listener, reached by an exception of the
\* handler: it logs and leaves the client as it is
catchError(cl) == cl

\* a listener that hands one frame to the handler twice
invoke_twice(cl) == [cl EXCEPT !.onMessageCalls = @ + 2]

\* `await this.options.onMessage(message)`: the listener invokes the handler
\* once, synchronously, for the frame it was called with
invoke(cl) == [cl EXCEPT !.onMessageCalls = @ + 1]

\* "message" event of socket s carrying a unit of the given kind: the
\* handler parses it and awaits options.onMessage, the router of startAccount
SocketMessage(c, s, kind) ==
    /\ inbound < scope.inbound
    /\ c \in ClientIds /\ s \in DOMAIN clients[c].sockets
    /\ clients[c].sockets[s] \in {"OPEN", "CLOSING"}
    /\ inbound' = inbound + 1
    /\ LET cl   == clients[c]
           acct == cl.accountId
           id   == inbound + 1
           called == [clients EXCEPT ![c] = invoke(@)]
       IN CASE ~parses(kind) ->
                 /\ lastCall' = Call("message", kind, acct, c, ParseFailed)
                 /\ UNCHANGED <<clients, status, wire, rejected, nextId, tasks>>
            [] routed(kind) = "connected" ->
                 /\ clients' = called
                 /\ status' = setStatus(status, acct,
                       [running |-> TRUE, connected |-> TRUE, lastError |-> "null"])
                 /\ lastCall' = Call("message", kind, acct, c, "handled")
                 /\ UNCHANGED <<wire, rejected, nextId, tasks>>
            [] routed(kind) = "error" ->
                 /\ clients' = called
                 /\ status' = setStatus(status, acct, [lastError |-> "remote-error"])
                 /\ lastCall' = Call("message", kind, acct, c, "handled")
                 /\ UNCHANGED <<wire, rejected, nextId, tasks>>
            [] routed(kind) = "chat" ->
                 /\ clients' = called
                 /\ \E ev \in ChatEvents :
                       tasks' = tasks \cup
                          {Task(id, "chat", c, s, ev, handleInboundMessage(acct, ev))}
                 /\ lastCall' = Call("message", kind, acct, c, "awaiting host")
                 /\ UNCHANGED <<status, wire, rejected, nextId>>
            [] routed(kind) = "wake" /\ cl.hooksEnabled ->
                 /\ clients' = called
                 /\ tasks' = tasks \cup {Task(id, kind, c, s, NoEvent, "postLocalHook")}
                 /\ lastCall' = Call("message", kind, acct, c, "awaiting hook")
                 /\ UNCHANGED <<status, wire, rejected, nextId>>
            [] routed(kind) = "agent" /\ cl.hooksEnabled ->
                 /\ clients' = called
                 /\ \E ev \in AgentEvents(scope.fields) :
                       tasks' = tasks \cup {Task(id, kind, c, s, ev, agentBody(ev))}
                 /\ lastCall' = Call("message", kind, acct, c, "awaiting hook")
                 /\ UNCHANGED <<status, wire, rejected, nextId>>
            [] routed(kind) \in {"wake", "agent"} /\ ~cl.hooksEnabled ->
                 /\ clients' = IF send(cl, c, "f").threw
                               THEN [called EXCEPT ![c] = catchError(@)]
                               ELSE called
                 /\ Transmit(c, Frame(nextId + 1, "error", id, "none", HooksNotEnabled))
                 /\ lastCall' = Call("message", kind, acct, c,
                       IF send(cl, c, "f").threw THEN ParseFailed ELSE "handled")
                 /\ UNCHANGED <<status, tasks>>
            [] OTHER ->
                 /\ clients' = called
                 /\ lastCall' = Call("message", kind, acct, c, "handled")
                 /\ UNCHANGED <<status, wire, rejected, nextId, tasks>>
    /\ UNCHANGED <<scope, cfg, poll, activeClients>>

\* the POST to the local hook completes and the router sends the ack
HookResponds(t, res) ==
    /\ t \in tasks /\ t.kind \in {"wake", "agent"}
    /\ tasks' = tasks \ {t}
    /\ Transmit(t.client,
                IF postLocalHook(res).ok
                THEN Frame(nextId + 1, "ack", t.id, "dispatched", "none")
                ELSE Frame(nextId + 1, "ack", t.id, "error",
                           HookReturned(postLocalHook(res).status)))
    /\ clients' = IF send(clients[t.client], t.client, "f").threw
                  THEN [clients EXCEPT ![t.client] = catchError(@)]
                  ELSE clients
    /\ lastCall' = Call("hook", res, clients[t.client].accountId, t.client,
           IF send(clients[t.client], t.client, "f").threw THEN ParseFailed ELSE "handled")
    /\ UNCHANGED <<scope, cfg, poll, activeClients, status, inbound>>

\* the host pipeline invokes the reply callback of a chat message
HostReplies(t) ==
    /\ t \in tasks /\ t.kind = "chat"
    /\ IF isConnected(clients[t.client])
       THEN /\ \E responseText \in ReplyTexts :
                  Transmit(t.client, sent(replyFrame(t, responseText, nextId + 1)))
            /\ lastCall' = Call("reply", t.id, clients[t.client].accountId, t.client, "sent")
       ELSE /\ lastCall' = Call("reply", t.id, clients[t.client].accountId, t.client, "dropped")
            /\ UNCHANGED <<wire, rejected, nextId>>
    /\ UNCHANGED <<scope, cfg, poll, clients, activeClients, status, inbound, tasks>>

\* handleInboundMessage settles: a rejection lands in the handler's catch
HostReturns(t, rejects) ==
    /\ t \in tasks /\ t.kind = "chat"
    /\ tasks' = tasks \ {t}
    /\ clients' = IF rejects THEN [clients EXCEPT ![t.client] = catchError(@)]
                            ELSE clients
    /\ lastCall' = Call("host", t.id, clients[t.client].accountId, t.client,
                        IF rejects THEN ParseFailed ELSE "handled")
    /\ UNCHANGED <<scope, cfg, poll, activeClients, status, wire, rejected, nextId, inbound>>

\* ------------------------------------------------- polling variant
\* gateway.startAccount(ctx) of the polling variant: throws for an
\* unconfigured account; otherwise creates the interval timer, stores it in
\* activePollers and starts the initial poll(), which it awaits. (The status
\* update before the check sets agentName only.)
pollStartAccount(acct, configured, ms) ==
    /\ acct \in scope.accounts /\ ms \in scope.periods
    /\ scope.pollers > 0
    /\ IF notConfigured(configured)
       THEN /\ lastCall' = Call("pollStartAccount", configured, acct, 0,
                                "throw:not configured")
            /\ UNCHANGED poll
       ELSE LET id == poll.created + 1
                r  == poll.runs + 1
            IN /\ poll.created < scope.pollers /\ poll.runs < scope.polls
               /\ poll' = [poll EXCEPT !.created = id,
                                       !.timers = @ \cup {id},
                                       !.pollers = Append(@, Poller(acct, ms)),
                                       !.activePollers[acct] = id,
                                       !.runs = r,
                                       !.running = @ \cup
                                           {Run(r, id, acct, TRUE, "fetch", << >>)}]
               /\ lastCall' = Call("pollStartAccount", configured, acct, 0, "polling")
    /\ UNCHANGED <<scope, cfg, clients, activeClients, status, wire, rejected, nextId,
                   inbound, tasks>>

\* a stop handle returned by startAccount of the polling variant
pollStopHandle(acct) ==
    /\ acct \in Accounts /\ poll.handles[acct] > 0
    /\ LET timer == poll.activePollers[acct]
           p     == [poll EXCEPT !.handles[acct] = @ - 1]
       IN poll' = IF timer # 0
                  THEN [p EXCEPT !.timers = @ \ {timer}, !.activePollers[acct] = 0]
                  ELSE p
    /\ lastCall' = Call("pollStopHandle", "none", acct, 0, "stopped")
    /\ UNCHANGED <<scope, cfg, clients, activeClients, status, wire, rejected, nextId,
                   inbound, tasks>>

\* a tick of a live interval timer starts a poll() run
pollTick(timer) ==
    /\ timer \in poll.timers
    /\ poll.runs < scope.polls
    /\ LET r == poll.runs + 1
       IN poll' = [poll EXCEPT !.runs = r,
                     !.running = @ \cup {Run(r, timer, poll.pollers[timer].acct,
                                             FALSE, "fetch", << >>)}]
    /\ lastCall' = Call("pollTick", timer, poll.pollers[timer].acct, 0, "started")
    /\ UNCHANGED <<scope, cfg, clients, activeClients, status, wire, rejected, nextId,
                   inbound, tasks>>

\* a poll() without the catch: an error ends the run unrecorded and, in the
\* initial run, rejects startAccount, which then returns no stop handle
Continue_rejects(p, old, new, err) ==
    LET over == new.phase = "end" \/ new.batch = << >>
    IN [p EXCEPT !.running = IF over THEN @ \ {old} ELSE (@ \ {old}) \cup {new},
                 !.handles[old.acct] =
                     IF over /\ old.initial /\ err = "none" THEN @ + 1 ELSE @]

\* the poll state once run `old` has moved on to `new`: a run that has no
\* message left, or whose error was caught, is over, and startAccount, which
\* awaited its initial run, returns the stop handle
Continue(p, old, new, err) ==
    LET over == new.phase = "end" \/ new.batch = << >>
        q == [p EXCEPT !.running = IF over THEN @ \ {old} ELSE (@ \ {old}) \cup {new},
                       !.handles[old.acct] = IF over /\ old.initial THEN @ + 1 ELSE @]
    IN IF err = "none" THEN q ELSE [q EXCEPT !.lastError[old.acct] = err]

\* `await fetchUnreadMessages(account)` of a run settles
pollFetched(run, ok) ==
    /\ run \in poll.running /\ run.phase = "fetch"
    /\ LET poller == poll.pollers[run.timer]
           n      == IF ok THEN 0 ELSE poller.failures + 1
           p      == [poll EXCEPT !.pollers[run.timer].failures = n,
                                  !.pollers[run.timer].every = nextPollDelay(poller, n)]
           new    == IF ok
                     THEN [run EXCEPT !.phase = "handle",
                                      !.batch = skipOthers(Unread(poll.unread[run.acct], 1))]
                     ELSE [run EXCEPT !.phase = "end"]
       IN poll' = Continue(p, run, new, IF ok THEN "none" ELSE "fetch failed")
    /\ lastCall' = Call("fetch", run.id, run.acct, 0, IF ok THEN "ok" ELSE "failed")
    /\ UNCHANGED <<scope, cfg, clients, activeClients, status, wire, rejected, nextId,
                   inbound, tasks>>

\* `await handleInboundMessage(...)` of a run settles
pollHandled(run, ok) ==
    /\ run \in poll.running /\ run.phase = "handle"
    /\ poll' = Continue(poll, run, afterHandle(run, ok),
                        IF ok THEN "none" ELSE "handle failed")
    /\ lastCall' = Call("handled", [run |-> run.id, msg |-> Head(run.batch)],
                        run.acct, 0, IF ok THEN "ok" ELSE "failed")
    /\ UNCHANGED <<scope, cfg, clients, activeClients, status, wire, rejected, nextId,
                   inbound, tasks>>

\* `await markMessageRead(account, msg.id)` of a run settles
pollMarked(run, ok) ==
    /\ run \in poll.running /\ run.phase = "mark"
    /\ LET msg == Head(run.batch)
           p   == IF ok THEN [poll EXCEPT !.unread[run.acct] = @ \ {msg}] ELSE poll
           new == IF ok
                  THEN [run EXCEPT !.phase = "handle", !.batch = skipOthers(Tail(@))]
                  ELSE [run EXCEPT !.phase = "end"]
       IN poll' = Continue(p, run, new, IF ok THEN "none" ELSE "mark-read failed")
    /\ lastCall' = Call("markRead", [run |-> run.id, msg |-> Head(run.batch)],
                        run.acct, 0, IF ok THEN "ok" ELSE "failed")
    /\ UNCHANGED <<scope, cfg, clients, activeClients, status, wire, rejected, nextId,
                   inbound, tasks>>

\* ------------------------------------------------------------------ Next
Next ==
    \/ \E acct \in Accounts, sig \in Signals : StartAccount(acct, sig)
    \/ \E new \in ScopeConfigs(scope) : ConfigEdit(new)
    \/ ListAccountIds
    \/ \E accountId \in Accounts \cup {"undefined"} : ResolveAccount(accountId)
    \/ \E c \in ClientIds : StopHandle(c)
    \/ \E c \in ClientIds : Abort(c)
    \/ \E c \in ClientIds : StartAgain(c)
    \/ \E a \in Accounts \cup {"undefined"}, to \in {"user1"} : sendText(a, to)
    \/ \E c \in ClientIds : \E s \in DOMAIN clients[c].sockets : SocketOpens(c, s)
    \/ \E c \in ClientIds : \E s \in DOMAIN clients[c].sockets : SocketError(c, s)
    \/ \E c \in ClientIds : \E s \in DOMAIN clients[c].sockets : SocketCloses(c, s)
    \/ \E c \in ClientIds : ReconnectTimerFires(c)
    \/ \E c \in ClientIds : PingTick(c)
    \/ \E c \in ClientIds : \E s \in DOMAIN clients[c].sockets, kind \in UnitKinds :
            SocketMessage(c, s, kind)
    \/ \E t \in tasks, res \in HookResults : HookResponds(t, res)
    \/ \E t \in tasks : HostReplies(t)
    \/ \E t \in tasks, rejects \in BOOLEAN : HostReturns(t, rejects)
    \/ \E acct \in Accounts, configured \in BOOLEAN, ms \in PollIntervals :
            pollStartAccount(acct, configured, ms)
    \/ \E acct \in Accounts : pollStopHandle(acct)
    \/ \E timer \in 1..MaxPollers : pollTick(timer)
    \/ \E run \in poll.running, ok \in BOOLEAN : pollFetched(run, ok)
    \/ \E run \in poll.running, ok \in BOOLEAN : pollHandled(run, ok)
    \/ \E run \in poll.running, ok \in BOOLEAN : pollMarked(run, ok)

Spec == Init /\ [][Next]_vars

\* =================================================================== claims
Open(cl) == cl.ws # 0 /\ cl.sockets[cl.ws] = "OPEN"

\* C1: sendText for account A puts one "message" frame on the wire, through
\* the socket of the client the registry holds for A, exactly when the
\* registry holds a client for A whose socket is OPEN; in every other case
\* it throws "not connected" naming A and the wire is unchanged.
C1_SendTextIffConnected ==
    [][ lastCall'.op = "sendText" =>
          LET A == IF lastCall'.arg = "undefined" THEN DEFAULT_ACCOUNT_ID
                                                  ELSE lastCall'.arg
              c == activeClients[A]
          IN IF c # 0 /\ Open(clients[c])
             THEN /\ lastCall'.outcome = "sent"
                  /\ wire' = wire \cup
                       {[frame |-> Frame(nextId + 1, "message", "user1", "none", "none"),
                         client |-> c, sock |-> clients[c].ws, state |-> "OPEN"]}
                  /\ wire' # wire
             ELSE /\ lastCall'.outcome = "throw:not connected"
                  /\ lastCall'.acct = A
                  /\ wire' = wire ]_vars

\* C1 witness: with two clients built, a sendText has gone out through the
\* second one
C1_Witness ==
    /\ Len(clients) = 2
    /\ lastCall.op = "sendText" /\ lastCall.outcome = "sent" /\ lastCall.client = 2

\* C2: a frame handed to send() goes on the wire in that same step, on the
\* client's current socket and only when that socket is OPEN; otherwise
\* send() throws, and a frame so rejected is on the wire in no later state.
C2_SendNeverQueues ==
    [][ /\ \A w \in wire' : w.state = "OPEN" /\ w.frame.id \notin rejected'
        /\ rejected \subseteq rejected'
        /\ \A w \in wire' \ wire : w.frame.id = nextId + 1 /\ nextId' = nextId + 1
        /\ nextId' = nextId + 1 =>
             LET cl == clients[lastCall'.client]
             IN IF Open(cl)
                THEN /\ \E w \in wire' \ wire : w.sock = cl.ws /\ w.client = lastCall'.client
                     /\ rejected' = rejected
                ELSE /\ wire' = wire
                     /\ rejected' = rejected \cup {nextId + 1} ]_vars

\* C2 witness: a frame was rejected while the client was reconnecting, and
\* the reconnect has since succeeded
C2_Witness ==
    /\ rejected = {1}
    /\ Len(clients) = 1 /\ Len(clients[1].sockets) = 2 /\ Open(clients[1])

\* C3: once a client is destroyed, no step creates a socket for it and no
\* step schedules a reconnect timer for it.
C3_NoReconnectAfterStop ==
    [][ \A c \in ClientIds :
          clients[c].destroyed =>
            /\ Len(clients'[c].sockets) = Len(clients[c].sockets)
            /\ clients'[c].timers <= clients[c].timers
            /\ clients'[c].reconnectTimeout # "pending" ]_vars

\* C3 witness: stop(), then a further start(), then the close event of the
\* old socket
C3_Witness ==
    /\ Len(clients) = 1 /\ clients[1].destroyed /\ clients[1].startCalls = 2
    /\ lastCall.op = "close"

\* C4: from the first stop() on, the client is destroyed and holds no
\* socket, no keepalive timer and no reconnect timer.
C4_StoppedIsTerminal ==
    \A c \in ClientIds :
        clients[c].stopCalls >= 1 =>
            /\ clients[c].destroyed
            /\ clients[c].ws = 0
            /\ ~clients[c].pingInterval /\ clients[c].pingTimers = 0
            /\ clients[c].reconnectTimeout = "null" /\ clients[c].timers = 0

\* C4 witness: a message event of the old socket handled after stop()
C4_Witness ==
    /\ Len(clients) = 1 /\ clients[1].stopCalls >= 1
    /\ lastCall.op = "message" /\ lastCall.arg = "connected"

\* C5: a stop() on a client already stopped changes no field of the client
\* and nothing it owns, and no socket ever receives more than one close().
C5_StopIdempotent ==
    [][ \A c \in ClientIds :
          /\ \A s \in DOMAIN clients'[c].closeCalls : clients'[c].closeCalls[s] <= 1
          /\ clients[c].stopCalls >= 1 /\ clients'[c].stopCalls > clients[c].stopCalls =>
               [clients'[c] EXCEPT !.stopCalls = 0, !.signal = "none"]
                 = [clients[c] EXCEPT !.stopCalls = 0, !.signal = "none"] ]_vars

\* C5 witness: the second stop() on a client whose socket was closed by the first
C5_Witness ==
    /\ Len(clients) = 1 /\ clients[1].stopCalls = 2
    /\ clients[1].closeCalls = <<1>>
    /\ lastCall.op \in {"stopHandle", "abort"}

\* the close event the ws library emits for a socket of client c that has
\* failed or is closing
ClosesAfterFailure(c) ==
    \E s \in 1..MaxSockets :
        /\ c \in ClientIds /\ s \in DOMAIN clients[c].sockets
        /\ clients[c].sockets[s] \in {"ABORTING", "CLOSING"}
        /\ SocketCloses(c, s)

\* The runs of at most one client (the optional fields of agent events, which
\* no timer or socket reads, left out), where the runtime does not postpone a due
\* setTimeout callback forever and the ws library emits the close event of a
\* socket that has failed. (Clients share nothing that connect() or
\* scheduleReconnect() reads, so the runs of several clients add nothing to
\* what one client does next.)
InitLive == Init /\ scope.clients <= 1 /\ scope.fields = 0

SpecLive ==
    /\ InitLive /\ [][Next]_vars
    /\ WF_vars(ReconnectTimerFires(1))
    /\ WF_vars(ClosesAfterFailure(1))

\* base * 2^(n-1), by repeated doubling
RECURSIVE Doubled(_, _)
Doubled(base, n) == IF n <= 1 THEN base ELSE 2 * Doubled(base, n - 1)

\* the step is a close event handled by client c while it is not destroyed
ClosedStep(c) ==
    /\ c \in ClientIds
    /\ ~clients[c].destroyed
    /\ clients'[c].closesSinceOpen = clients[c].closesSinceOpen + 1

\* C6: the n-th close in a row without an open in between schedules exactly
\* one reconnect, after min(reconnectIntervalMs * 2^(n-1), maxReconnectIntervalMs);
\* that delay never exceeds the maximum, is not below the delay of the close
\* before it, and for 5000 / 60000 runs 5000, 10000, 20000, 40000, 60000, 60000.
C6_BackoffDelay ==
    [][ \A c \in 1..MaxClients :
          ClosedStep(c) =>
            LET n    == clients'[c].closesSinceOpen
                base == clients[c].reconnectIntervalMs
                max  == clients[c].maxReconnectIntervalMs
                d    == clients'[c].delay
            IN /\ clients'[c].timers = clients[c].timers + 1
               /\ clients[c].timers = 0
               /\ clients'[c].reconnectTimeout = "pending"
               /\ d = (IF Doubled(base, n) <= max THEN Doubled(base, n) ELSE max)
               /\ d <= max
               /\ n > 1 => d >= clients[c].delay
               /\ (base = 5000 /\ max = 60000 /\ n <= 6) =>
                     d = <<5000, 10000, 20000, 40000, 60000, 60000>>[n] ]_vars

\* C6 witness: the sixth close in a row of a 5000 / 60000 client has
\* scheduled its reconnect at the maximum
C6_Witness ==
    /\ Len(clients) = 1
    /\ clients[1].reconnectIntervalMs = 5000
    /\ clients[1].closesSinceOpen = 6
    /\ clients[1].reconnectTimeout = "pending" /\ clients[1].delay = 60000

\* C7: an open event sets the attempt counter to zero, and the close of a
\* socket that had opened schedules the reconnect after exactly
\* reconnectIntervalMs, however many attempts failed before that open.
C7_OpenResetsBackoff ==
    [][ \A c \in 1..MaxClients :
          /\ (c \in ClientIds /\ lastCall'.op = "open" /\ lastCall'.client = c)
                => clients'[c].reconnectAttempts = 0
          /\ (ClosedStep(c) /\ clients[c].closesSinceOpen = 0
                /\ \E s \in DOMAIN clients[c].sockets :
                      /\ clients[c].sockets[s] \in {"OPEN", "CLOSING"}
                      /\ clients'[c].sockets[s] = "CLOSED")
                => /\ clients'[c].reconnectAttempts = 1
                   /\ clients'[c].reconnectTimeout = "pending"
                   /\ clients'[c].delay = clients[c].reconnectIntervalMs ]_vars

\* C7 witness: two attempts failed, the third socket opened and then closed,
\* and the reconnect is scheduled after the base interval
C7_Witness ==
    /\ Len(clients) = 1
    /\ clients[1].sockets = <<"CLOSED", "CLOSED", "CLOSED">>
    /\ clients[1].closesSinceOpen = 1
    /\ clients[1].reconnectTimeout = "pending"
    /\ clients[1].delay = clients[1].reconnectIntervalMs
    /\ lastCall.op = "close"

\* client c has not been stopped and the socket it holds has failed or closed
Failed(c) ==
    /\ c \in ClientIds /\ ~clients[c].destroyed
    /\ clients[c].ws # 0
    /\ clients[c].sockets[clients[c].ws] \in {"ABORTING", "CLOSING", "CLOSED"}

\* client c holds a socket of a connection attempt under way or established,
\* or was stopped, or the run has used up the sockets it explores
Retried(c) ==
    /\ c \in ClientIds
    /\ \/ clients[c].destroyed
       \/ clients[c].ws # 0 /\ clients[c].sockets[clients[c].ws] \in {"CONNECTING", "OPEN"}
       \/ TotalSockets >= scope.sockets

\* C8: a client that has not been stopped always has a socket that is not
\* closed or a pending reconnect timer, and every failure or close of its
\* socket is eventually followed by a new connection attempt, after any
\* number of failures in a row.
C8_AlwaysRetries ==
    /\ [](\A c \in ClientIds :
            ~clients[c].destroyed =>
               \/ clients[c].ws # 0 /\ clients[c].sockets[clients[c].ws] # "CLOSED"
               \/ clients[c].timers = 1 /\ clients[c].reconnectTimeout = "pending")
    /\ Failed(1) ~> Retried(1)

\* C8 witness: the fifth connection attempt of a client after four failures
\* in a row
C8_Witness ==
    /\ Len(clients) = 1 /\ ~clients[1].destroyed
    /\ clients[1].closesSinceOpen = 4
    /\ clients[1].sockets = <<"CLOSED", "CLOSED", "CLOSED", "CLOSED", "CONNECTING">>
    /\ lastCall.op = "timer"

\* C9: the step in which the signal given to start() fires runs stop(): the
\* socket the client holds receives close(1000), the client is destroyed and
\* holds no socket and no timer; once the signal has fired the client creates
\* no socket.
C9_AbortStops ==
    [][ \A c \in ClientIds :
          /\ (clients[c].signal = "armed" /\ clients'[c].signal = "fired") =>
                /\ clients'[c].destroyed
                /\ clients'[c].stopCalls > clients[c].stopCalls
                /\ clients'[c].ws = 0 /\ clients'[c].timers = 0
                /\ clients[c].ws # 0 =>
                      /\ clients'[c].closeCalls[clients[c].ws] = 1
                      /\ clients'[c].closeCode[clients[c].ws] = 1000
                      /\ clients'[c].sockets[clients[c].ws] \in {"ABORTING", "CLOSING", "CLOSED"}
          /\ clients[c].signal = "fired" =>
                /\ clients'[c].destroyed
                /\ Len(clients'[c].sockets) = Len(clients[c].sockets)
                /\ clients'[c].timers = 0 ]_vars

\* C9 witness: the signal fired while the socket was open, stop() ran once,
\* and the close event of that socket has been handled since
C9_Witness ==
    /\ Len(clients) = 1 /\ clients[1].signal = "fired" /\ clients[1].stopCalls = 1
    /\ clients[1].sockets = <<"CLOSED">> /\ clients[1].closeCode = <<1000>>
    /\ clients[1].pingTimers = 0 /\ clients[1].closesSinceOpen = 1
    /\ lastCall.op = "close"

\* C10: a unit that is not valid JSON is logged and dropped: onMessage is not
\* invoked, nothing is thrown, and the client (socket, attempt counter,
\* keepalive timer, reconnect timer, destroyed flag), the registry, the
\* status, the wire and the waiting handlers are as they were.
C10_MalformedDiscarded ==
    [][ (lastCall'.op = "message" /\ lastCall'.arg = "malformed") =>
          /\ lastCall'.outcome = ParseFailed
          /\ clients' = clients
          /\ activeClients' = activeClients /\ status' = status
          /\ wire' = wire /\ rejected' = rejected /\ tasks' = tasks ]_vars

\* C10 witness: a malformed unit was dropped without a handler call, and
\* the next unit on the same socket has reached onMessage
C10_Witness ==
    /\ Len(clients) = 1 /\ inbound = 2 /\ clients[1].onMessageCalls = 1
    /\ Len(clients[1].sockets) = 1
    /\ status[DEFAULT_ACCOUNT_ID].connected
    /\ lastCall.op = "message" /\ lastCall.arg = "connected"
    /\ lastCall.outcome = "handled"

\* C11: no two handlers of inbound events of one connection are in progress
\* at once: the handler of an event has finished, its awaited hook POST and
\* host call included, before the handler of the next event starts.
C11_HandlersSerialized ==
    \A t1, t2 \in tasks :
        (t1.client = t2.client /\ t1.sock = t2.sock) => t1 = t2

\* C12: a "message" event from "human" makes exactly one handleInboundMessage
\* call, with channel "agentgate", the account id, senderId and chatId both
\* the event's connId, chatType "direct" and the event's text; a "message"
\* event from anyone else makes no call.
C12_ChatDelivered ==
    [][ (lastCall'.op = "message" /\ lastCall'.arg \in {"chat", "chat-other"}) =>
          IF lastCall'.arg = "chat"
          THEN \E t \in tasks' \ tasks :
                 /\ tasks' = tasks \cup {t}
                 /\ t.kind = "chat" /\ t.id = inbound' /\ t.client = lastCall'.client
                 /\ t.event \in ChatEvents
                 /\ t.call = [channel |-> "agentgate",
                              accountId |-> clients[t.client].accountId,
                              senderId |-> t.event.connId,
                              chatType |-> "direct",
                              chatId |-> t.event.connId,
                              text |-> t.event.text]
          ELSE tasks' = tasks ]_vars

\* C12 witness: the chat event of user1 saying "hello there" is with the
\* host, and a message not from a human has since been handled without a call
C12_Witness ==
    /\ lastCall.op = "message" /\ lastCall.arg = "chat-other"
    /\ \E t \in tasks :
          /\ t.kind = "chat" /\ t.call.chatId = "user1" /\ t.call.text = "hello there"
    /\ Cardinality(tasks) = 1

\* C13: the reply callback puts one "reply" frame on the wire when the client
\* is connected at the moment it is invoked; when the client is not connected
\* it sends nothing, throws nothing (the host call goes on as before), and no
\* later step sends the reply: a "reply" frame reaches the wire only in the
\* step of a reply callback.
C13_ReplyOnlyWhenConnected ==
    [][ /\ \A w \in wire' \ wire :
              w.frame.type = "reply" => lastCall'.op = "reply" /\ lastCall'.outcome = "sent"
        /\ lastCall'.op = "reply" =>
              LET c  == lastCall'.client
                  cl == clients[c]
              IN /\ tasks' = tasks /\ clients' = clients
                 /\ IF Open(cl)
                    THEN /\ lastCall'.outcome = "sent"
                         /\ wire' = wire \cup
                              {[frame |-> Frame(nextId + 1, "reply", lastCall'.arg,
                                                "none", "none"),
                                client |-> c, sock |-> cl.ws, state |-> "OPEN"]}
                         /\ rejected' = rejected
                    ELSE /\ lastCall'.outcome = "dropped"
                         /\ wire' = wire /\ rejected' = rejected
                         /\ nextId' = nextId ]_vars

\* C13 witness: the reply callback was invoked while the client was
\* reconnecting, and nothing was sent
C13_Witness ==
    /\ lastCall.op = "reply" /\ lastCall.outcome = "dropped"
    /\ Len(clients) = 1 /\ ~clients[1].destroyed
    /\ clients[1].sockets = <<"CLOSED", "CONNECTING">>
    /\ wire = {}

\* C14: with hooks disabled, a wake or agent event starts no hook POST and
\* puts exactly one error frame on the wire, referring to the event's id.
C14_HooksDisabledErrorFrame ==
    [][ (/\ lastCall'.op = "message" /\ lastCall'.arg \in {"wake", "agent"}
         /\ ~clients[lastCall'.client].hooksEnabled) =>
          /\ tasks' = tasks
          /\ \E w \in wire' \ wire :
                /\ wire' = wire \cup {w}
                /\ w.frame.type = "error" /\ w.frame.ref = inbound' ]_vars

\* C15: every frame sent back for a wake or agent event is of type "ack"
\* and carries the event's id, with status "dispatched" on success and
\* status "error" with a reason on failure, hooks not enabled included.
C15_AckForEveryOutcome ==
    [][ \A w \in wire' \ wire :
          /\ (lastCall'.op = "message" /\ lastCall'.arg \in {"wake", "agent"}) =>
                /\ w.frame.type = "ack" /\ w.frame.ref = inbound'
                /\ w.frame.status = "error" /\ w.frame.error # "none"
          /\ lastCall'.op = "hook" =>
                /\ w.frame.type = "ack"
                /\ \E t \in tasks \ tasks' : w.frame.ref = t.id
                /\ \/ w.frame.status = "dispatched" /\ lastCall'.arg \in {200, 202}
                   \/ /\ w.frame.status = "error" /\ w.frame.error # "none"
                      /\ lastCall'.arg \notin {200, 202} ]_vars

\* C16: with hooks enabled, the completion of the hook POST of a wake or
\* agent event yields one ack for that event, with status "dispatched"
\* exactly when the POST returned 200 or 202, and otherwise (any other
\* status, or a transport failure) with status "error" and a diagnostic that
\* contains the status code.
C16_AckStatusFollowsHook ==
    [][ lastCall'.op = "hook" =>
          \E t \in tasks \ tasks', w \in wire' \ wire :
             /\ wire' = wire \cup {w}
             /\ w.frame.type = "ack" /\ w.frame.ref = t.id
             /\ (w.frame.status = "dispatched") = (lastCall'.arg \in {200, 202})
             /\ lastCall'.arg \notin {200, 202} =>
                   /\ w.frame.status = "error"
                   /\ w.frame.error[2] = lastCall'.arg ]_vars

\* C17: no step of the handling of a wake or agent event, neither the
\* receipt of the event nor the completion of its hook POST, ends with an
\* exception thrown into the message handler of the client, whatever the
\* hook outcome and whatever the state of the connection.
C17_HookHandlingNeverThrows ==
    (\/ lastCall.op = "hook"
     \/ lastCall.op = "message" /\ lastCall.arg \in {"wake", "agent"})
        => lastCall.outcome # ParseFailed

\* the connection of the client is open: the socket it holds has had its
\* open event and not yet its close event, and stop() has not been called
ConnectionOpen(cl) == cl.ws # 0 /\ cl.sockets[cl.ws] \in {"OPEN", "CLOSING"}

\* C18: a client has a keepalive timer exactly while its connection is open,
\* never more than one, none after the close event or stop(), and every ping
\* frame was sent on a socket that was OPEN.
C18_KeepaliveWhileOpen ==
    /\ \A c \in ClientIds :
          /\ clients[c].pingTimers <= 1
          /\ clients[c].pingInterval = (clients[c].pingTimers = 1)
          /\ (clients[c].pingTimers = 1) = ConnectionOpen(clients[c])
    /\ \A w \in wire :
          w.frame.type = "ping" => w.state = "OPEN"

\* C18 witness: the timer of the first connection was removed at its close,
\* and the timer created when the second socket opened has sent a ping
C18_Witness ==
    /\ Len(clients) = 1
    /\ clients[1].sockets = <<"CLOSED", "OPEN">>
    /\ clients[1].pingTimers = 1
    /\ lastCall.op = "ping" /\ lastCall.outcome = "sent"
    /\ \E w \in wire : w.frame.type = "ping" /\ w.sock = 2

\* C19: startAccount for an account that is not configured throws "not
\* configured" in the call itself and creates no client, no poll timer, no
\* registry entry and no timer that would retry, in the WebSocket variant and
\* in the polling variant.
C19_UnconfiguredStartFails ==
    [][ /\ (lastCall'.op = "startAccount" /\ ~lastCall'.arg.configured) =>
              /\ lastCall'.outcome = "throw:not configured"
              /\ clients' = clients /\ activeClients' = activeClients
              /\ poll' = poll /\ tasks' = tasks
        /\ (lastCall'.op = "pollStartAccount" /\ ~lastCall'.arg) =>
              /\ lastCall'.outcome = "throw:not configured"
              /\ clients' = clients /\ activeClients' = activeClients
              /\ poll' = poll /\ tasks' = tasks ]_vars

\* C19 witness: an unconfigured start has just failed for an account whose
\* earlier client is still registered and running
C19_Witness ==
    /\ lastCall.op = "startAccount" /\ ~lastCall.arg.configured
    /\ lastCall.outcome = "throw:not configured"
    /\ activeClients[lastCall.acct] = 1 /\ Len(clients) = 1
    /\ ~clients[1].destroyed

\* an unconfigured start of the polling variant has failed next to a live poller
C19_WitnessPolling ==
    /\ lastCall.op = "pollStartAccount" /\ ~lastCall.arg
    /\ poll.timers = {1} /\ poll.activePollers[lastCall.acct] = 1

\* C20: for every account at most one client that has been started and not
\* stopped exists, whatever startAccount calls and stop-handle calls were made.
C20_OneLiveClientPerAccount ==
    \A a \in Accounts :
        Cardinality({c \in ClientIds : /\ clients[c].accountId = a
                                       /\ clients[c].startCalls >= 1
                                       /\ ~clients[c].destroyed}) <= 1

\* the steps that are events of a socket or completions awaited by a handler
EventOps == {"open", "error", "close", "message", "hook", "reply", "host", "ping", "timer"}

\* C21: the status of an account turns connected only in the step of a
\* "connected" event of that account, which also sets lastError to null;
\* every close event leaves the account's status not connected; and after
\* every step an account whose status is connected has a client whose
\* connection is open.
C21_StatusTracksConnection ==
    [][ /\ \A a \in Accounts :
              (status'[a].connected /\ ~status[a].connected) =>
                 /\ lastCall'.op = "message" /\ lastCall'.arg = "connected"
                 /\ lastCall'.acct = a
                 /\ status'[a].lastError = "null"
        /\ lastCall'.op = "close" => ~status'[lastCall'.acct].connected
        /\ \A a \in Accounts :
              status'[a].connected =>
                 \E c \in DOMAIN clients' :
                    clients'[c].accountId = a /\ ConnectionOpen(clients'[c]) ]_vars

\* C22: the stop handle leaves its client stopped, the account without a
\* registry entry and the status not running and not connected; and once the
\* stop handle of a client has been called, no event of that client turns the
\* status of its account to running or to connected.
C22_StopHandleIsFinal ==
    [][ /\ lastCall'.op = "stopHandle" =>
              LET c == lastCall'.client
                  a == lastCall'.acct
              IN /\ clients'[c].destroyed /\ clients'[c].ws = 0
                 /\ clients'[c].pingTimers = 0 /\ clients'[c].timers = 0
                 /\ activeClients'[a] = 0
                 /\ ~status'[a].running /\ ~status'[a].connected
        /\ \A c \in ClientIds :
              (/\ clients[c].signal = "none" /\ clients[c].stopCalls >= 1
               /\ lastCall'.client = c /\ lastCall'.op \in EventOps) =>
                 LET a == clients[c].accountId
                 IN /\ status'[a].running => status[a].running
                    /\ status'[a].connected => status[a].connected ]_vars

\* C23: the body POSTed for an agent event has the event's message, the
\* event's name or "agentgate" when the event has none, and each of deliver,
\* channel, to, model, thinking and timeoutSeconds exactly when the event
\* carries it, with the event's value, and never as null.
C23_AgentBodyFields ==
    [][ (/\ lastCall'.op = "message" /\ lastCall'.arg = "agent"
         /\ clients[lastCall'.client].hooksEnabled) =>
          \E t \in tasks' \ tasks :
             /\ t.call.message = t.event.message
             /\ t.call.name = (IF t.event.name \in {"undefined", "null"}
                               THEN "agentgate" ELSE t.event.name)
             /\ \A k \in AgentKeys \ {"name"} :
                   /\ (t.call[k] # "undefined") = (t.event[k] \notin {"undefined", "null"})
                   /\ t.call[k] # "undefined" => t.call[k] = t.event[k]
                   /\ t.call[k] # "null" ]_vars

\* the settings client record cl was built with
Settings(cl) ==
    [url |-> cl.url, token |-> cl.token,
     reconnectIntervalMs |-> cl.reconnectIntervalMs,
     maxReconnectIntervalMs |-> cl.maxReconnectIntervalMs,
     pingIntervalMs |-> cl.pingIntervalMs, hooks |-> cl.hooksEnabled]

\* C24: a client's settings are the configuration as it was in the step of
\* its startAccount and never change afterwards; every socket it creates, the
\* first and the reconnects, gets that url and token, every reconnect delay
\* is computed from those intervals, every keepalive timer has that period,
\* and wake and agent events are routed by those hooks settings; a
\* configuration edit changes nothing but the configuration.
C24_SettingsAreSnapshot ==
    [][ /\ lastCall'.op = "configEdit" =>
              /\ clients' = clients /\ activeClients' = activeClients
              /\ status' = status /\ wire' = wire /\ rejected' = rejected
              /\ tasks' = tasks /\ poll' = poll
        /\ (lastCall'.op = "startAccount" /\ lastCall'.outcome = "started") =>
              Settings(clients'[lastCall'.client]) = cfg.now
        /\ \A c \in DOMAIN clients' :
              LET new == clients'[c]
                  set == Settings(new)
                  old == IF c \in ClientIds THEN clients[c]
                         ELSE [new EXCEPT !.target = << >>, !.pingTimers = 0]
              IN /\ c \in ClientIds => Settings(clients[c]) = set
                 /\ \A i \in DOMAIN new.target :
                       i > Len(old.target) =>
                          new.target[i] = [url |-> set.url, token |-> set.token]
                 /\ ClosedStep(c) =>
                       new.delay =
                          (IF Doubled(set.reconnectIntervalMs, new.closesSinceOpen)
                                 <= set.maxReconnectIntervalMs
                           THEN Doubled(set.reconnectIntervalMs, new.closesSinceOpen)
                           ELSE set.maxReconnectIntervalMs)
                 /\ new.pingTimers > old.pingTimers => new.pingEvery = set.pingIntervalMs
                 /\ (/\ lastCall'.op = "message" /\ lastCall'.client = c
                     /\ lastCall'.arg \in {"wake", "agent"}) =>
                       IF set.hooks THEN tasks' # tasks /\ wire' = wire
                                    ELSE tasks' = tasks /\ nextId' = nextId + 1 ]_vars

\* C24 witness: the configuration was edited in every setting while the
\* client ran; its socket then closed, the reconnect was scheduled after the
\* base interval it was started with, and the timer has just created the
\* second socket with the url and token it was started with
C24_Witness ==
    /\ Len(clients) = 1 /\ cfg.edits = 1 /\ cfg.now = OtherConfig
    /\ clients[1].sockets = <<"CLOSED", "CONNECTING">>
    /\ clients[1].target[2] = [url |-> <<"x">>, token |-> <<"x">>]
    /\ clients[1].delay = 5000 /\ clients[1].pingEvery = 30000
    /\ lastCall.op = "timer"

\* the string has a character that is not whitespace
NonBlank(str) == \E i \in DOMAIN str : str[i] # " "

\* C25: resolveAccount reports configured exactly when url and token both
\* have content, and listAccountIds returns the default account id exactly
\* for the configurations resolveAccount reports as configured, and the empty
\* list for all others, whitespace-only url and token included.
C25_ListedIffConfigured ==
    /\ lastCall.op = "resolveAccount" =>
          lastCall.outcome.configured =
             (NonBlank(cfg.now.url) /\ NonBlank(cfg.now.token))
    /\ lastCall.op = "listAccountIds" =>
          lastCall.outcome =
             (IF NonBlank(cfg.now.url) /\ NonBlank(cfg.now.token)
              THEN <<DEFAULT_ACCOUNT_ID>> ELSE << >>)

\* the poll() run with the given id among those in progress
RunOf(p, id) == CHOOSE run \in p.running : run.id = id

C27_MarkReadAfterDelivery ==
    [][ /\ \A new \in poll'.running :
              /\ new.phase \in {"handle", "mark"} => toAgent(Head(new.batch)) = AgentName
              /\ (new.phase = "mark" /\ new \notin poll.running) =>
                    /\ lastCall'.op = "handled" /\ lastCall'.outcome = "ok"
                    /\ lastCall'.arg = [run |-> new.id, msg |-> Head(new.batch)]
                    /\ [new EXCEPT !.phase = "handle"] \in poll.running
              /\ \A old \in poll.running :
                    (old.id = new.id /\ old.phase # "fetch" /\ old.batch # new.batch) =>
                       /\ lastCall'.op = "markRead" /\ lastCall'.outcome = "ok"
                       /\ lastCall'.arg = [run |-> old.id, msg |-> Head(old.batch)]
                       /\ old.phase = "mark"
                       /\ Head(old.batch) \notin poll'.unread[old.acct]
                       /\ new.batch = skipOthers(Tail(old.batch))
        /\ \A a \in Accounts : \A m \in poll.unread[a] \ poll'.unread[a] :
              /\ lastCall'.op = "markRead" /\ lastCall'.outcome = "ok"
              /\ lastCall'.arg.msg = m /\ lastCall'.acct = a
              /\ RunOf(poll, lastCall'.arg.run).phase = "mark"
        /\ (lastCall'.op = "handled" /\ lastCall'.outcome = "failed") =>
              /\ poll'.unread = poll.unread
              /\ \A new \in poll'.running : new.id # lastCall'.arg.run ]_vars

\* C27 witness: a run has delivered the first message and marked it read,
\* passed over the second, which is for another agent, and is now
\* delivering the third
C27_Witness ==
    /\ lastCall.op = "markRead" /\ lastCall.outcome = "ok" /\ lastCall.arg.msg = 1
    /\ poll.unread[DEFAULT_ACCOUNT_ID] = {2, 3}
    /\ \E run \in poll.running :
          run.id = lastCall.arg.run /\ run.phase = "handle" /\ run.batch = <<3>>

\* C28: once every stop handle that startAccount returned for an account has
\* been called (and no startAccount call of the account is still awaiting its
\* initial poll), no interval timer of that account is live and no poll()
\* run starts for it.
C28_StopEndsPolling ==
    [][ \A a \in Accounts :
          (/\ poll'.handles[a] = 0
           /\ \A run \in poll'.running : ~(run.acct = a /\ run.initial)) =>
             /\ \A t \in poll'.timers : poll'.pollers[t].acct # a
             /\ (poll.handles[a] = 0 /\ lastCall'.op = "pollTick") =>
                   lastCall'.acct # a ]_vars

\* C29: when the reply callback sends, it puts exactly one frame on the wire,
\* a chat-message frame (type "message") that carries the reply text and is
\* addressed to the sender of the original message (its connId is the
\* original event's connId).
C29_ReplyIsAddressedMessage ==
    [][ (lastCall'.op = "reply" /\ lastCall'.outcome = "sent") =>
          \E t \in tasks, responseText \in ReplyTexts, w \in wire' \ wire :
             LET obj == replyFrame(t, responseText, nextId + 1)
             IN /\ t.id = lastCall'.arg
                /\ wire' = wire \cup {w}
                /\ w.frame = sent(obj)
                /\ obj.type = "message"
                /\ obj.text = responseText
                /\ "connId" \in DOMAIN obj
                /\ obj.connId = t.event.connId ]_vars

\* invocations of options.onMessage made by the first n clients
RECURSIVE Invocations(_, _)
Invocations(cls, n) ==
    IF n = 0 THEN 0 ELSE cls[n].onMessageCalls + Invocations(cls, n - 1)

\* C30: the handler is invoked for inbound events in the order in which the
\* socket delivered their frames, and never twice for one frame: an
\* invocation starts only in the step in which a frame is delivered, it is
\* the only one of that step, it belongs to the client whose socket delivered
\* the frame and it is given that newest frame (later than every frame a
\* handler already works on); no step other than a delivery (a reconnect
\* included) invokes the handler, and there are never more invocations than
\* frames delivered.
C30_HandlerOrder ==
    [][ LET rose == {c \in DOMAIN clients :
                        clients'[c].onMessageCalls # clients[c].onMessageCalls}
        IN /\ DOMAIN clients \subseteq DOMAIN clients'
           /\ \A c \in DOMAIN clients' \ DOMAIN clients : clients'[c].onMessageCalls = 0
           /\ Cardinality(rose) <= 1
           /\ \A c \in rose :
                 /\ clients'[c].onMessageCalls = clients[c].onMessageCalls + 1
                 /\ lastCall'.op = "message" /\ lastCall'.client = c
                 /\ inbound' = inbound + 1
           /\ \A t \in tasks' \ tasks :
                 /\ t.client \in rose
                 /\ t.id = inbound' /\ inbound' = inbound + 1
                 /\ \A u \in tasks : u.id < t.id
           /\ Invocations(clients', Len(clients')) <= inbound' ]_vars

\* one client was handed two frames, the first by the socket of its first
\* connection and the second by the socket opened on reconnecting, and both
\* handlers are still at work
C30_Witness ==
    \E c \in DOMAIN clients : \E t1, t2 \in tasks :
       /\ clients[c].onMessageCalls = 2
       /\ t1.client = c /\ t2.client = c
       /\ t1.sock < t2.sock /\ t1.id < t2.id

\* the inbound events that are only logged or ignored
PassiveKinds == {"human_connected", "human_disconnected", "pong", "unknown"}

\* C31: an inbound human_connected, human_disconnected or pong event, or one
\* of an unrecognized type, has no effect beyond the handler having been
\* invoked: no frame is sent, no host-pipeline call and no hook request is
\* started, the status is not updated, and the client (its sockets, timers,
\* attempt counter, stopped flag), the registry and the configuration are as
\* they were.
C31_PassiveEventsOnlyLog ==
    [][ (lastCall'.op = "message" /\ lastCall'.arg \in PassiveKinds) =>
          /\ lastCall'.outcome = "handled"
          /\ wire' = wire /\ rejected' = rejected /\ nextId' = nextId
          /\ tasks' = tasks
          /\ status' = status
          /\ activeClients' = activeClients /\ cfg' = cfg /\ poll' = poll
          /\ clients' = [clients EXCEPT ![lastCall'.client].onMessageCalls = @ + 1] ]_vars

\* C31 witness: a pong arrived on the open socket of a client whose status is
\* connected
C31_Witness ==
    /\ lastCall.op = "message" /\ lastCall.arg = "pong"
    /\ lastCall.client \in ClientIds
    /\ Open(clients[lastCall.client])
    /\ status[lastCall.acct].connected

\* C32: isConnected() of a client is true exactly when a socket of the
\* client is OPEN and the client was not stopped: it is false while the
\* socket is CONNECTING, false once it is CLOSING or CLOSED, and false in
\* every state after stop().
C32_IsConnectedIffOpen ==
    \A c \in ClientIds :
       LET cl   == clients[c]
           open == {s \in DOMAIN cl.sockets : cl.sockets[s] = "OPEN"}
       IN /\ isConnected(cl) <=> (open # {} /\ ~cl.destroyed)
          /\ isConnected(cl) => open = {cl.ws}
          /\ cl.destroyed => ~isConnected(cl)

\* C32 witness: a client that was connected and then stopped; the socket it
\* closed has not finished closing
C32_Witness ==
    \E c \in ClientIds :
       /\ clients[c].destroyed /\ clients[c].ws = 0
       /\ \E s \in DOMAIN clients[c].sockets :
             clients[c].sockets[s] = "CLOSING" /\ clients[c].closeCode[s] = 1000
       /\ clients[c].pingTimers = 0 /\ clients[c].pingEvery # 0

\* C33: the stop handle of one startAccount call never removes the registry
\* entry of a client created by a later startAccount call: an entry that
\* holds another client than the one the handle stops is still there after
\* the call.
C33_StopHandleKeepsLaterClient ==
    [][ lastCall'.op = "stopHandle" =>
          \A a \in Accounts :
             (activeClients[a] # 0 /\ activeClients[a] # lastCall'.client) =>
                activeClients'[a] = activeClients[a] ]_vars

\* C34: a client on which start() was called once has at most one socket
\* that has not closed and at most one pending reconnect timer, and while a
\* reconnect timer is pending none of its sockets is connecting, open or
\* still closing.
C34_OneSocketOneTimer ==
    \A c \in ClientIds :
       LET cl   == clients[c]
           live == {s \in DOMAIN cl.sockets : cl.sockets[s] # "CLOSED"}
       IN cl.startCalls = 1 =>
             /\ Cardinality(live) <= 1
             /\ cl.timers <= 1
             /\ cl.timers > 0 => live = {}

\* C34 witness: the second connection attempt of a client failed as well and
\* the timer of the next attempt is pending
C34_Witness ==
    \E c \in ClientIds :
       /\ clients[c].startCalls = 1 /\ ~clients[c].destroyed
       /\ Len(clients[c].sockets) = 2
       /\ \A s \in DOMAIN clients[c].sockets : clients[c].sockets[s] = "CLOSED"
       /\ clients[c].timers = 1 /\ clients[c].reconnectAttempts = 2

\* C35: a step in which the handler of an inbound event ends with an
\* exception (the host-pipeline call rejects, or send() throws inside the
\* handler) only logs: the client keeps its sockets, their states, its
\* attempt counter and its timers, no reconnect is scheduled, nothing goes on
\* the wire, and the status and the registry are as they were.
C35_HandlerErrorAbsorbed ==
    [][ (/\ \/ lastCall'.op \in {"host", "hook"}
            \/ lastCall'.op = "message" /\ parses(lastCall'.arg)
         /\ lastCall'.outcome = ParseFailed) =>
          LET c == lastCall'.client
          IN /\ clients' = [clients EXCEPT ![c].onMessageCalls =
                                clients'[c].onMessageCalls]
             /\ wire' = wire /\ status' = status
             /\ activeClients' = activeClients ]_vars

\* C35 witness: a send() inside a handler threw, and an inbound frame that
\* came after it was handed to the handler as usual
C35_Witness ==
    /\ rejected # {}
    /\ lastCall.op = "message" /\ lastCall.outcome \in {"handled", "awaiting host"}
    /\ lastCall.client \in ClientIds
    /\ clients[lastCall.client].onMessageCalls = 2

\* C36: a frame sent in response to an inbound event goes out on the socket
\* that delivered the event: an ack or a reply is sent on the socket its
\* handler was started by, never on a socket opened by a later reconnect, and
\* an error frame is sent in the step that delivers its event.
C36_ResponseOnDeliveringSocket ==
    [][ \A w \in wire' \ wire :
           /\ w.frame.type \in {"ack", "reply"} =>
                 \E t \in tasks : /\ t.id = w.frame.ref /\ t.client = w.client
                                  /\ t.sock = w.sock
           /\ w.frame.type = "error" =>
                 /\ lastCall'.op = "message" /\ w.frame.ref = inbound'
                 /\ clients[w.client].sockets[w.sock] = "OPEN" ]_vars

\* C37: a client whose start() was given a signal that had already fired
\* makes no connection attempt and is stopped: it has created no socket and
\* its destroyed flag is set.
C37_AbortedBeforeStart ==
    \A c \in ClientIds :
       (clients[c].signal = "aborted" /\ clients[c].startCalls >= 1) =>
          /\ clients[c].destroyed
          /\ clients[c].sockets = << >>

\* the message a poll() run has handed to the host pipeline and not yet seen
\* marked read (0: none)
InHand(run) == IF run.phase \in {"handle", "mark"} THEN Head(run.batch) ELSE 0

\* C38: an unread message is delivered to the host pipeline at most once,
\* also when poll() runs overlap: no two runs of an account have been handed
\* the same message.
C38_DeliveredAtMostOnce ==
    \A r1, r2 \in poll.running :
       (r1 # r2 /\ r1.acct = r2.acct /\ InHand(r1) # 0) => InHand(r1) # InHand(r2)

\* the error text a failed step of poll() leaves in lastError
PollError(op) ==
    CASE op = "fetch"   -> "fetch failed"
      [] op = "handled" -> "handle failed"
      [] OTHER          -> "mark-read failed"

\* C39: a failed fetch, delivery or mark-read call of a poll() run is
\* absorbed: the error is recorded in lastError of the account, the run ends
\* there (the message in hand is not marked read and the rest of the batch
\* is not handled by it), every other run and every timer is left alone so
\* that polling goes on, and a startAccount call awaiting the run as its
\* initial poll returns its stop handle instead of rejecting.
C39_PollFailureAbsorbed ==
    [][ (lastCall'.op \in {"fetch", "handled", "markRead"}
            /\ lastCall'.outcome = "failed") =>
          LET id  == IF lastCall'.op = "fetch" THEN lastCall'.arg
                                               ELSE lastCall'.arg.run
              run == RunOf(poll, id)
              a   == run.acct
          IN /\ poll'.lastError[a] = PollError(lastCall'.op)
             /\ poll'.running = poll.running \ {run}
             /\ poll'.unread = poll.unread
             /\ poll'.timers = poll.timers
             /\ poll'.activePollers = poll.activePollers
             /\ poll'.handles[a] = poll.handles[a] + (IF run.initial THEN 1 ELSE 0) ]_vars

\* C39 witness: the delivery of a message failed in the initial poll,
\* startAccount returned all the same, the message is still unread, and the
\* next tick of the timer has started another poll
C39_Witness ==
    \E a \in Accounts :
       /\ lastCall.op = "pollTick" /\ lastCall.acct = a
       /\ poll.lastError[a] = "handle failed"
       /\ poll.handles[a] = 1 /\ poll.runs = 2
       /\ 1 \in poll.unread[a]

====
